---------------------------- MODULE Spec2Model ----------------------------
(***************************************************************************)
(* Model of the markdown rendering pipeline of the chat MessageBubble      *)
(* component (src/app/components/chatbubble.tsx).                          *)
(*                                                                         *)
(* A string is a sequence of one-character strings.  Character offsets are *)
(* 0-based, as in the JavaScript source: At(s, k) is s[k] of the source,   *)
(* Substring(s, a, b) is s.substring(a, b).  Line indices are 0-based too. *)
(***************************************************************************)
EXTENDS Integers, Sequences, FiniteSets, TLC

VARIABLES
    message,      \* prop message
    isUser,       \* prop isUser
    pc,           \* position of the render: "start", "gated", "done"
    hasMarkdown,  \* the const hasMarkdown of the component body
    parsed,       \* TRUE iff parseMarkdown(message) was called
    output,       \* the children rendered inside the bubble
    inlineCalls,  \* calls of parseInlineMarkdown made by the render, in order
    emphCalls,    \* calls of parseTextWithFormatting made by the render, in order
    blk,          \* the running parseMarkdown: lines, i, elements, codeLines, open
    inl,          \* the running parseInlineMarkdown: its locals
    fmt           \* the running parseTextWithFormatting: its locals

vars == <<message, isUser, pc, hasMarkdown, parsed, output, inlineCalls, emphCalls,
          blk, inl, fmt>>

frames == <<blk, inl, fmt>>

---------------------------------------------------------------------------
(* Characters and JavaScript string primitives                             *)

LF == "\n"
CR == "\r"
TAB == "\t"
\* The backquote character (a string literal cannot start with a backquote).
BQ == "BQ"

Digits == {"0", "1", "2", "3", "4", "5", "6", "7", "8", "9"}

\* \s of a JavaScript regular expression, and the characters trim() strips
\* (restricted to the characters the model's inputs can hold).
WhiteSpace == {" ", TAB, LF, CR}

\* The characters the dot does not match (no s flag): the line terminators.
LineTerminators == {LF, CR}

Min(S) == CHOOSE x \in S : \A y \in S : x <= y

At(s, k) == s[k + 1]

Substring(s, a, b) == SubSeq(s, a + 1, b)

SubstringFrom(s, a) == SubSeq(s, a + 1, Len(s))

\* s.startsWith(p, k)
StartsWithAt(s, p, k) ==
    /\ k >= 0
    /\ k + Len(p) <= Len(s)
    /\ \A j \in 1..Len(p) : s[k + j] = p[j]

StartsWith(s, p) == StartsWithAt(s, p, 0)

\* s.includes(p)
Includes(s, p) == \E k \in 0..Len(s) : StartsWithAt(s, p, k)

\* s.trim() is a non-empty string
TrimNonEmpty(s) == \E k \in 1..Len(s) : s[k] \notin WhiteSpace

RECURSIVE SplitFrom(_, _, _)
SplitFrom(s, k, cur) ==
    IF k > Len(s) THEN <<cur>>
    ELSE IF s[k] = LF THEN <<cur>> \o SplitFrom(s, k + 1, <<>>)
    ELSE SplitFrom(s, k + 1, Append(cur, s[k]))

\* text.split('\n')
Split(s) == SplitFrom(s, 1, <<>>)

RECURSIVE Join(_)
\* codeLines.join('\n')
Join(ls) ==
    IF ls = <<>> THEN <<>>
    ELSE IF Len(ls) = 1 THEN ls[1]
    ELSE ls[1] \o <<LF>> \o Join(Tail(ls))

RECURSIVE Flatten(_)
Flatten(ss) == IF ss = <<>> THEN <<>> ELSE ss[1] \o Flatten(Tail(ss))

---------------------------------------------------------------------------
(* Regular expressions of the source, as JavaScript's matcher runs them.   *)
(* A match is a record: found, index (match.index), len (match[0].length), *)
(* g1 and g2 (match[1], match[2]).                                         *)

NoMatch == [found |-> FALSE, index |-> 0, len |-> 0, g1 |-> <<>>, g2 |-> <<>>]

Match(i, l, a, b) == [found |-> TRUE, index |-> i, len |-> l, g1 |-> a, g2 |-> b]

RECURSIVE FirstIndex(_, _, _)
\* The least offset k >= from with s[k] = c, or -1
FirstIndex(s, c, from) ==
    IF from >= Len(s) THEN -1
    ELSE IF At(s, from) = c THEN from
    ELSE FirstIndex(s, c, from + 1)

RECURSIVE DigitsFrom(_, _)
\* Number of decimal digits of s from offset k on (the greedy \d+)
DigitsFrom(s, k) ==
    IF k < Len(s) /\ At(s, k) \in Digits THEN 1 + DigitsFrom(s, k + 1) ELSE 0

LeadingDigits(s) == DigitsFrom(s, 0)

\* /^\d+\.\s/.test(s)
NumberedTest(s) ==
    LET d == LeadingDigits(s) IN
    /\ d >= 1
    /\ Len(s) >= d + 2
    /\ At(s, d) = "."
    /\ At(s, d + 1) \in WhiteSpace

\* s.match(/^(\d+)\.\s(.*)$/): the dot stops at a line terminator and $ (no
\* m flag) matches only at the end of the string.
NumberedMatch(s) ==
    LET d == LeadingDigits(s) IN
    IF /\ NumberedTest(s)
       /\ \A k \in (d + 2)..(Len(s) - 1) : At(s, k) \notin LineTerminators
    THEN Match(0, Len(s), Substring(s, 0, d), SubstringFrom(s, d + 2))
    ELSE NoMatch

\* markdownLinkRegex, /\[([^\]]+)\]\(([^)]+)\)/, anchored at offset p: the
\* display text runs to the first ], the target to the first ).
MdLinkMatchAt(s, p) ==
    IF ~(p < Len(s) /\ At(s, p) = "[") THEN NoMatch
    ELSE
      LET q == FirstIndex(s, "]", p + 1) IN
      IF ~(q >= p + 2 /\ q + 1 < Len(s) /\ At(s, q + 1) = "(") THEN NoMatch
      ELSE
        LET r == FirstIndex(s, ")", q + 2) IN
        IF r < q + 3 THEN NoMatch
        ELSE Match(p, r + 1 - p, Substring(s, p + 1, q), Substring(s, q + 2, r))

\* The character class of urlRegex: anything but white space and
\* < > " { } | \ ^ backquote [ ]
UrlChar(c) ==
    /\ c \notin WhiteSpace
    /\ c \notin {"<", ">", "\"", "{", "}", "|", "\\", "^", BQ, "[", "]"}

Http == <<"h", "t", "t", "p">>
SchemeSep == <<":", "/", "/">>

\* Offset just after https?:\/\/ anchored at p, or -1
SchemeEndAt(s, p) ==
    IF ~StartsWithAt(s, Http, p) THEN -1
    ELSE IF StartsWithAt(s, <<"s">>, p + 4)
         THEN (IF StartsWithAt(s, SchemeSep, p + 5) THEN p + 8 ELSE -1)
         ELSE (IF StartsWithAt(s, SchemeSep, p + 4) THEN p + 7 ELSE -1)

RECURSIVE UrlRunEnd(_, _)
\* The offset where the greedy run of URL characters starting at k ends
UrlRunEnd(s, k) ==
    IF k < Len(s) /\ UrlChar(At(s, k)) THEN UrlRunEnd(s, k + 1) ELSE k

\* urlRegex, /https?:\/\/[...]+/, anchored at offset p
UrlMatchAt(s, p) ==
    LET b == SchemeEndAt(s, p) IN
    IF b < 0 THEN NoMatch
    ELSE LET e == UrlRunEnd(s, b)
         IN IF e = b THEN NoMatch ELSE Match(p, e - p, <<>>, <<>>)

\* /https?:\/\//.test(s)
HasUrlScheme(s) == \E p \in 0..Len(s) : SchemeEndAt(s, p) >= 0

RECURSIVE ClosingDelim(_, _, _)
\* Where the lazy group (.*?) started before offset k finds the closing
\* delimiter d: the nearest offset >= k holding d, no line terminator being
\* crossed on the way; or -1.
ClosingDelim(s, d, k) ==
    IF k + Len(d) > Len(s) THEN -1
    ELSE IF StartsWithAt(s, d, k) THEN k
    ELSE IF At(s, k) \in LineTerminators THEN -1
    ELSE ClosingDelim(s, d, k + 1)

\* /D(.*?)D/ anchored at offset p, D the delimiter d (two asterisks, one
\* asterisk or one backquote)
DelimMatchAt(s, d, p) ==
    IF ~StartsWithAt(s, d, p) THEN NoMatch
    ELSE LET k == ClosingDelim(s, d, p + Len(d))
         IN IF k < 0 THEN NoMatch
            ELSE Match(p, k + Len(d) - p, Substring(s, p + Len(d), k), <<>>)

\* A regex whose lastIndex stays at the start of its match
NextLastIndexStuck(m) == m.index

\* The lastIndex a global regex is left with by an exec that matched m
NextLastIndex(m) == m.index + m.len

RECURSIVE ExecMdLink(_, _)
\* markdownLinkRegex.exec(s), lastIndex being from: the leftmost match at an
\* offset >= from, or null.
ExecMdLink(s, from) ==
    IF from >= Len(s) THEN NoMatch
    ELSE LET m == MdLinkMatchAt(s, from)
         IN IF m.found THEN m ELSE ExecMdLink(s, from + 1)

RECURSIVE ExecUrl(_, _)
\* urlRegex.exec(s), lastIndex being from
ExecUrl(s, from) ==
    IF from >= Len(s) THEN NoMatch
    ELSE LET m == UrlMatchAt(s, from)
         IN IF m.found THEN m ELSE ExecUrl(s, from + 1)

RECURSIVE ExecDelim(_, _, _)
\* regex.exec(s) of the pattern with delimiter d, lastIndex being from
ExecDelim(s, d, from) ==
    IF from >= Len(s) THEN NoMatch
    ELSE LET m == DelimMatchAt(s, d, from)
         IN IF m.found THEN m ELSE ExecDelim(s, d, from + 1)

---------------------------------------------------------------------------
(* Inline spans: what a <Text> child of a rendered line shows.             *)

Span(k, t, st, u) == [kind |-> k, text |-> t, style |-> st, url |-> u]

\* <Text style={styles.normalText}>{t}</Text>
Plain(t) == Span("Plain", t, "normal", <<>>)

\* <Text style={[styles.normalText, pattern.style]}>{match[1]}</Text>
Styled(t, st) == Span("Styled", t, st, <<>>)

\* <Text style={styles.link} onPress={() => handleLinkPress(link.url)}>{link.text}</Text>
LinkSpan(t, u) == Span("Link", t, "link", u)

---------------------------------------------------------------------------
(* parseTextWithFormatting                                                 *)

\* The patterns array: delimiter and style, in the order of the source.
patterns ==
    << [delim |-> <<"*", "*">>, style |-> "bold"],
       [delim |-> <<"*">>,      style |-> "italic"],
       [delim |-> <<BQ>>,       style |-> "inlineCode"] >>

RECURSIVE ScanPattern(_, _, _)
\* The while loop over regex.exec(text) of one pattern: every match, in
\* order, each search resuming at the end of the previous match.
ScanPattern(text, pat, from) ==
    LET m == ExecDelim(text, pat.delim, from) IN
    IF ~m.found THEN <<>>
    ELSE <<[index |-> m.index, len |-> m.len, g1 |-> m.g1, style |-> pat.style]>>
         \o ScanPattern(text, pat, NextLastIndex(m))

\* patterns.forEach(...): the matches of the three patterns, pattern by pattern
FindAllMatches(text) ==
    ScanPattern(text, patterns[1], 0)
    \o ScanPattern(text, patterns[2], 0)
    \o ScanPattern(text, patterns[3], 0)

RECURSIVE InsertByIndex(_, _)
\* Insert m after every element whose index is <= m.index (a stable sort step)
InsertByIndex(sorted, m) ==
    IF sorted = <<>> THEN <<m>>
    ELSE IF sorted[1].index <= m.index
         THEN <<sorted[1]>> \o InsertByIndex(Tail(sorted), m)
         ELSE <<m>> \o sorted

RECURSIVE SortByIndexFrom(_, _, _)
SortByIndexFrom(ms, k, acc) ==
    IF k > Len(ms) THEN acc
    ELSE SortByIndexFrom(ms, k + 1, InsertByIndex(acc, ms[k]))

\* allMatches.sort((a, b) => a.index - b.index); Array.prototype.sort is stable
SortMatches(ms) == SortByIndexFrom(ms, 1, <<>>)

\* currentIndex after a match was processed
AfterMatch(m) == m.index + m.len

RECURSIVE WalkMatches(_, _, _, _)
\* allMatches.forEach(...) followed by the remaining text: the elements pushed
\* from match k on, currentIndex being cur.
WalkMatches(text, ms, k, cur) ==
    IF k > Len(ms)
    THEN (IF cur < Len(text) THEN <<Plain(SubstringFrom(text, cur))>> ELSE <<>>)
    ELSE LET m == ms[k]
             before == IF m.index > cur
                       THEN <<Plain(Substring(text, cur, m.index))>>
                       ELSE <<>>
         IN before \o <<Styled(m.g1, m.style)>>
                   \o WalkMatches(text, ms, k + 1, AfterMatch(m))

\* The values currentIndex takes: 0, then its value after each match
CursorTrace(ms) == <<0>> \o [k \in 1..Len(ms) |-> AfterMatch(ms[k])]

\* parseTextWithFormatting(text): the elements returned, with the sorted
\* matches and the values of currentIndex that produced them.
parseTextWithFormatting(text) ==
    LET ms == SortMatches(FindAllMatches(text))
        elements == WalkMatches(text, ms, 1, 0)
    IN [text    |-> text,
        matches |-> ms,
        cursors |-> CursorTrace(ms),
        spans   |-> IF elements = <<>> THEN <<Plain(text)>> ELSE elements]

---------------------------------------------------------------------------
(* parseInlineMarkdown                                                     *)

Link(a, b, t, u, ty) == [start |-> a, end |-> b, text |-> t, url |-> u, type |-> ty]

RECURSIVE ScanMarkdownLinks(_, _)
\* while ((match = markdownLinkRegex.exec(text)) !== null) allLinks.push(...)
ScanMarkdownLinks(text, from) ==
    LET m == ExecMdLink(text, from) IN
    IF ~m.found THEN <<>>
    ELSE <<Link(m.index, m.index + m.len, m.g1, m.g2, "markdown")>>
         \o ScanMarkdownLinks(text, NextLastIndex(m))

\* A bare URL scan that never looks at the markdown links found before
NeverPartOfMarkdownLink(allLinks, index) == FALSE

\* allLinks.some(link => link.type === 'markdown' &&
\*                       match.index >= link.start && match.index < link.end)
isPartOfMarkdownLink(allLinks, index) ==
    \E k \in 1..Len(allLinks) :
        /\ allLinks[k].type = "markdown"
        /\ index >= allLinks[k].start
        /\ index < allLinks[k].end

RECURSIVE ScanPlainUrls(_, _, _)
\* while ((match = urlRegex.exec(text)) !== null) { ... }: the plain links
\* pushed, allLinks holding the markdown links found before.
ScanPlainUrls(text, from, allLinks) ==
    LET m == ExecUrl(text, from) IN
    IF ~m.found THEN <<>>
    ELSE LET url == Substring(text, m.index, m.index + m.len)
             kept == IF isPartOfMarkdownLink(allLinks, m.index) THEN <<>>
                     ELSE <<Link(m.index, m.index + m.len, url, url, "plain")>>
         IN kept \o ScanPlainUrls(text, NextLastIndex(m), allLinks)

RECURSIVE InsertByStart(_, _)
InsertByStart(sorted, l) ==
    IF sorted = <<>> THEN <<l>>
    ELSE IF sorted[1].start <= l.start
         THEN <<sorted[1]>> \o InsertByStart(Tail(sorted), l)
         ELSE <<l>> \o sorted

RECURSIVE SortByStartFrom(_, _, _)
SortByStartFrom(ls, k, acc) ==
    IF k > Len(ls) THEN acc
    ELSE SortByStartFrom(ls, k + 1, InsertByStart(acc, ls[k]))

\* allLinks.sort((a, b) => a.start - b.start)
SortLinks(ls) == SortByStartFrom(ls, 1, <<>>)

\* allLinks of parseInlineMarkdown once both scans ran and the sort was done
FindAllLinks(text) ==
    LET md == ScanMarkdownLinks(text, 0)
    IN SortLinks(md \o ScanPlainUrls(text, 0, md))

\* A piece of the composed line: the text before a link or after the last
\* one, handed to parseTextWithFormatting ("gap"), or a link ("link"), with
\* the offsets it covers and the spans it shows.
Piece(ty, a, b, sp) == [type |-> ty, start |-> a, end |-> b, spans |-> sp]

GapPiece(text, a, b) ==
    Piece("gap", a, b, parseTextWithFormatting(Substring(text, a, b)).spans)

LinkPiece(l) == Piece("link", l.start, l.end, <<LinkSpan(l.text, l.url)>>)

\* A walk that leaves lastIndex at the start of the link it pushed
AfterLinkStart(l) == l.start

\* lastIndex after a link was pushed
AfterLink(l) == l.end

RECURSIVE WalkLinks(_, _, _, _)
\* allLinks.forEach(...) followed by the remaining text: the pieces pushed
\* from link k on, lastIndex being last.
WalkLinks(text, ls, k, last) ==
    IF k > Len(ls)
    THEN (IF last < Len(text) THEN <<GapPiece(text, last, Len(text))>> ELSE <<>>)
    ELSE LET l == ls[k]
             before == IF l.start > last THEN <<GapPiece(text, last, l.start)>>
                       ELSE <<>>
         IN before \o <<LinkPiece(l)>> \o WalkLinks(text, ls, k + 1, AfterLink(l))

\* The values lastIndex takes: 0, then its value after each link
LinkCursorTrace(ls) == <<0>> \o [k \in 1..Len(ls) |-> AfterLink(ls[k])]

\* hasMarkdownLinks || hasPlainUrls
HasLinks(text) == ExecMdLink(text, 0).found \/ ExecUrl(text, 0).found

\* What one call of parseInlineMarkdown leaves: the spans shown, with the link
\* candidates ls, the pieces ps pushed and the values of lastIndex.
InlineResult(text, ls, ps) ==
    [text    |-> text,
     links   |-> ls,
     cursors |-> LinkCursorTrace(ls),
     pieces  |-> ps,
     spans   |-> Flatten([k \in 1..Len(ps) |-> ps[k].spans])]

\* The walk over the sorted candidates ls and what it returns
ComposeLinks(text, ls) == InlineResult(text, ls, WalkLinks(text, ls, 1, 0))

\* parseInlineMarkdown(text): without a link the text goes to
\* parseTextWithFormatting whole, as one piece; with links the candidates are
\* collected, sorted and walked.
parseInlineMarkdown(text) ==
    IF ~HasLinks(text)
    THEN InlineResult(text, <<>>, <<GapPiece(text, 0, Len(text))>>)
    ELSE ComposeLinks(text, FindAllLinks(text))

\* The texts parseInlineMarkdown hands to parseTextWithFormatting, in order
GapTexts(call) ==
    LET gaps == SelectSeq(call.pieces, LAMBDA q : q.type = "gap")
    IN [k \in 1..Len(gaps) |-> Substring(call.text, gaps[k].start, gaps[k].end)]

---------------------------------------------------------------------------
(* parseMarkdown                                                           *)
(*                                                                         *)
(* An element pushed by parseMarkdown is a record: its kind; the heading   *)
(* level; the marker shown before a list item; the text it was built from; *)
(* the lines of a code block; whether the text went through                *)
(* parseInlineMarkdown and the spans that call returned; and the indices   *)
(* of the first and last source line it consumed (src, last).              *)

Fence == <<BQ, BQ, BQ>>
Bullet == <<"*">>   \* stands for the bullet sign shown before a list item

Seg(k, lv, mk, t, ls, il, sp, a, b) ==
    [kind |-> k, level |-> lv, marker |-> mk, text |-> t, lines |-> ls,
     inline |-> il, spans |-> sp, src |-> a, last |-> b]

\* The branch of the if-else chain of the for loop a line takes
LineClass(line) ==
    IF StartsWith(line, <<"#", " ">>) THEN "h1"
    ELSE IF StartsWith(line, <<"#", "#", " ">>) THEN "h2"
    ELSE IF StartsWith(line, <<"#", "#", "#", " ">>) THEN "h3"
    ELSE IF StartsWith(line, Fence) THEN "fence"
    ELSE IF StartsWith(line, <<">", " ">>) THEN "quote"
    ELSE IF StartsWith(line, <<"-", " ">>) \/ StartsWith(line, <<"*", " ">>) THEN "bullet"
    ELSE IF NumberedTest(line) THEN "numbered"
    ELSE IF TrimNonEmpty(line) THEN "paragraph"
    ELSE "empty"

IsOpeningFence(line) == LineClass(line) = "fence"

\* <Text style={styles.h1|h2|h3}>{line.substring(n)}</Text>
HeadingSeg(lv, line, i) ==
    Seg("Heading", lv, <<>>, SubstringFrom(line, lv + 1), <<>>, FALSE, <<>>, i, i)

\* <View style={styles.codeBlock}><Text>{codeLines.join('\n')}</Text></View>
CodeBlockSeg(codeLines, i, last) ==
    Seg("CodeBlock", 0, <<>>, Join(codeLines), codeLines, FALSE, <<>>, i, last)

\* A blockquote branch that hands its text to the inline resolver
BlockquoteSegInline(line, i) ==
    Seg("Blockquote", 0, <<>>, SubstringFrom(line, 2), <<>>, TRUE,
        parseInlineMarkdown(SubstringFrom(line, 2)).spans, i, i)

\* <View style={styles.blockquote}><Text>{line.substring(2)}</Text></View>
BlockquoteSeg(line, i) ==
    Seg("Blockquote", 0, <<>>, SubstringFrom(line, 2), <<>>, FALSE, <<>>, i, i)

\* <View style={styles.emptyLine} />
SpacerSeg(i) == Seg("Spacer", 0, <<>>, <<>>, <<>>, FALSE, <<>>, i, i)

\* The call parseInlineMarkdown(...) a line's branch makes: whether it makes
\* one, the kind and marker of the element built around it, and its argument.
InlineArg(line) ==
    LET c == LineClass(line)
        match == NumberedMatch(line)
        none == [call |-> FALSE, kind |-> "", marker |-> <<>>, text |-> <<>>]
    IN IF c = "bullet"
       THEN [call |-> TRUE, kind |-> "ListItem", marker |-> Bullet,
             text |-> SubstringFrom(line, 2)]
       ELSE IF c = "numbered" /\ match.found
       THEN [call |-> TRUE, kind |-> "ListItem", marker |-> match.g1 \o <<".">>,
             text |-> match.g2]
       ELSE IF c = "paragraph"
       THEN [call |-> TRUE, kind |-> "Paragraph", marker |-> <<>>, text |-> line]
       ELSE none

\* The element built around the spans parseInlineMarkdown returned
InlineSeg(arg, spans, i) ==
    Seg(arg.kind, 0, arg.marker, arg.text, <<>>, TRUE, spans, i, i)

\* The elements pushed for a line whose branch calls neither
\* parseInlineMarkdown nor the code block loop; an ordered-list line the
\* capturing pattern does not match pushes nothing.
LiteralElements(line, i) ==
    LET c == LineClass(line) IN
    IF c = "h1" THEN <<HeadingSeg(1, line, i)>>
    ELSE IF c = "h2" THEN <<HeadingSeg(2, line, i)>>
    ELSE IF c = "h3" THEN <<HeadingSeg(3, line, i)>>
    ELSE IF c = "quote" THEN <<BlockquoteSeg(line, i)>>
    ELSE IF c = "empty" THEN <<SpacerSeg(i)>>
    ELSE <<>>

\* The elements pushed for line i when it is no opening fence
LineElements(line, i) ==
    LET arg == InlineArg(line) IN
    IF arg.call THEN <<InlineSeg(arg, parseInlineMarkdown(arg.text).spans, i)>>
    ELSE LiteralElements(line, i)

\* A while loop that ends only on a line that is the fence marker alone
ClosesFenceExactly(line) == line = Fence

\* The test that ends the while loop collecting a code block
ClosesFence(line) == StartsWith(line, Fence)

RECURSIVE CodeEndFrom(_, _)
\* The value of i when the while loop of the code block branch, entered with
\* i = j, ends
CodeEndFrom(lines, j) ==
    IF j < Len(lines) /\ ~ClosesFence(At(lines, j)) THEN CodeEndFrom(lines, j + 1)
    ELSE j

\* The value of i when the while loop of the code block branch ends, the
\* opening fence being line open.
CodeEnd(lines, open) == CodeEndFrom(lines, open + 1)

\* The last line a code block consumed, the while loop having ended at stop
LastConsumed(lines, stop) == IF stop < Len(lines) THEN stop ELSE Len(lines) - 1

RECURSIVE ParseLinesFrom(_, _)
\* The for loop of parseMarkdown from cursor i on
ParseLinesFrom(lines, i) ==
    IF i >= Len(lines) THEN <<>>
    ELSE IF IsOpeningFence(At(lines, i))
         THEN LET stop == CodeEnd(lines, i)
              IN <<CodeBlockSeg(Substring(lines, i + 1, stop), i,
                                LastConsumed(lines, stop))>>
                 \o ParseLinesFrom(lines, stop + 1)
         ELSE LineElements(At(lines, i), i) \o ParseLinesFrom(lines, i + 1)

parseMarkdown(text) == ParseLinesFrom(Split(text), 0)

---------------------------------------------------------------------------
(* The component body                                                      *)

\* /[*_(backquote)#\[\]!-]/.test(message)
HasMarkupChar(s) ==
    \E k \in 1..Len(s) : s[k] \in {"*", "_", BQ, "#", "[", "]", "!", "-"}

\* const hasMarkdown = ...
DetectMarkdown(s) ==
    \/ HasMarkupChar(s)
    \/ Includes(s, Fence)
    \/ Includes(s, <<">", " ">>)
    \/ NumberedTest(s)
    \/ HasUrlScheme(s)

\* A gate that leaves isUser out
UsesParserIgnoringUser(user, md) == md

\* !isUser && hasMarkdown
UsesParser(user, md) == ~user /\ md

\* <Text style={styles.messageText}>{message}</Text>
LiteralSeg(s) == Seg("Literal", 0, <<>>, s, <<>>, FALSE, <<>>, 0, 0)

\* The calls of parseInlineMarkdown behind a list of elements, in order
InlineCallsOf(elements) ==
    LET segs == SelectSeq(elements, LAMBDA e : e.inline)
    IN [k \in 1..Len(segs) |-> parseInlineMarkdown(segs[k].text)]

\* The calls of parseTextWithFormatting behind a list of inline calls, in order
EmphCallsOf(calls) ==
    LET texts == Flatten([k \in 1..Len(calls) |-> GapTexts(calls[k])])
    IN [k \in 1..Len(texts) |-> parseTextWithFormatting(texts[k])]

---------------------------------------------------------------------------
(* Inputs: the messages the model renders                                  *)

MaxLines == 3    \* lines of a message built from LineSamples
MaxParts == 3    \* parts of a one-line message built from InlineParts
MaxWords == 2    \* words tried for each of A, P, B in EmphasisForms

Url == <<"h", "t", "t", "p", ":", "/", "/", "u">>

\* One line of each kind parseMarkdown tells apart, and lines close to them
LineSamples ==
    { <<>>,
      <<" ">>,
      <<"a">>,
      <<"#", " ", "a">>,
      <<"#", "#", " ", "a">>,
      <<"#", "#", "#", " ", "*", "a", "*">>,
      Fence,
      Fence \o <<"j">>,
      <<">", " ">> \o Url,
      <<"-", " ", "*", "a", "*">>,
      <<"1", ".", " ", "a">>,
      <<"1", ".", " ", "a", CR>>,
      Url }

RECURSIVE LinesUpTo(_)
\* The messages of 1..n lines from LineSamples
LinesUpTo(n) ==
    IF n <= 1 THEN LineSamples
    ELSE LET shorter == LinesUpTo(n - 1)
         IN shorter \cup {m \o <<LF>> \o l : m \in shorter, l \in LineSamples}

BlockMessages == LinesUpTo(MaxLines)

\* Pieces of inline markup, well formed and not
InlineParts ==
    { <<"x">>,
      <<" ">>,
      <<"*", "x", "*">>,
      <<"*", "*", "x", "*", "*">>,
      <<BQ, "x", BQ>>,
      Url,
      <<"[", "x", "]", "(", "y", ")">>,
      <<"[", "x", "]", "(">> \o Url \o <<")">>,
      <<"[">> \o Url \o <<"]", "(", "y", ")">>,
      <<"[">>,
      <<"]", "(">>,
      <<")">> }

RECURSIVE PartsUpTo(_)
\* The one-line messages of 1..n parts from InlineParts
PartsUpTo(n) ==
    IF n <= 1 THEN InlineParts
    ELSE LET shorter == PartsUpTo(n - 1)
         IN shorter \cup {m \o q : m \in shorter, q \in InlineParts}

InlineMessages == PartsUpTo(MaxParts)

\* Non-empty words without asterisk or backquote
WordList == << <<"a">>, <<" ">>, <<"b", " ">>, <<" ", "a", "b">> >>

Words == {WordList[k] : k \in 1..MaxWords}

\* The texts  **A** P *B*
EmphasisForm(A, P, B) ==
    <<"*", "*">> \o A \o <<"*", "*">> \o P \o <<"*">> \o B \o <<"*">>

EmphasisForms == {EmphasisForm(A, P, B) : A \in Words, P \in Words, B \in Words}

ExHello ==
    <<"h", "e", "l", "l", "o", " ", "w", "o", "r", "l", "d">>

ExUserHeading ==
    <<"#", " ", "n", "o", "t", " ", "a", " ", "h", "e", "a", "d", "i", "n", "g">>

ExTitle ==
    <<"#", "#", " ", "T", "i", "t", "l", "e">>

ExFence ==
    <<BQ, BQ, BQ, LF, "a", "b", LF, "c", "d">>

ExMdLink ==
    <<"s", "e", "e", " ", "[", "h", "e", "r", "e", "]", "(", "h", "t", "t", "p", "s", ":", "/", "/", "a", ".", "c", "o", "m", ")", " ", "n", "o", "w">>

ExBareUrl ==
    <<"v", "i", "s", "i", "t", " ", "h", "t", "t", "p", "s", ":", "/", "/", "e", "x", "a", "m", "p", "l", "e", ".", "c", "o", "m", " ", "t", "o", "d", "a", "y">>

ExNumbered ==
    <<"1", ".", " ", "f", "i", "r", "s", "t", LF, "2", ".", " ", "s", "e", "c", "o", "n", "d">>

ExMixed ==
    <<"*", "*", "b", "o", "l", "d", "*", "*", " ", "a", "n", "d", " ", "*", "i", "t", "a", "l", "i", "c", "*">>

ExQuoteUrl ==
    <<">", " ", "s", "e", "e", " ", "h", "t", "t", "p", "s", ":", "/", "/", "a", ".", "c", "o", "m">>

ExCrLf ==
    <<"1", ".", " ", "a", CR, LF, "2", ".", " ", "b", CR>>
ExFenceInfo ==
    <<BQ, BQ, BQ, LF, "a", "b", LF, BQ, BQ, BQ, "j", "s", LF, "c", "d">>

Examples ==
    {ExFenceInfo, ExHello, ExUserHeading, ExTitle, ExFence, ExMdLink, ExBareUrl, ExNumbered, ExMixed, ExQuoteUrl, ExCrLf}

Messages == BlockMessages \cup InlineMessages \cup EmphasisForms \cup Examples

---------------------------------------------------------------------------
(* The render of one MessageBubble                                         *)

\* No call of parseMarkdown, parseInlineMarkdown, parseTextWithFormatting runs
BlkIdle ==
    [lines |-> <<>>, i |-> 0, elements |-> <<>>, codeLines |-> <<>>, open |-> 0]

InlIdle ==
    [arg |-> [call |-> FALSE, kind |-> "", marker |-> <<>>, text |-> <<>>],
     re |-> 0, allLinks |-> <<>>, k |-> 0, lastIndex |-> 0, elements |-> <<>>]

FmtIdle ==
    [text |-> <<>>, pat |-> 0, re |-> 0, allMatches |-> <<>>, k |-> 0,
     currentIndex |-> 0, elements |-> <<>>, ret |-> ""]

InitOn(inputs) ==
    /\ message \in inputs
    /\ isUser \in BOOLEAN
    /\ pc = "start"
    /\ hasMarkdown = FALSE
    /\ parsed = FALSE
    /\ output = <<>>
    /\ inlineCalls = <<>>
    /\ emphCalls = <<>>
    /\ blk = BlkIdle
    /\ inl = InlIdle
    /\ fmt = FmtIdle

Init == InitOn(Messages)

\* const hasMarkdown = ... (the component body, before its return)
Detect ==
    /\ pc = "start"
    /\ hasMarkdown' = DetectMarkdown(message)
    /\ pc' = "gated"
    /\ UNCHANGED <<message, isUser, parsed, output, inlineCalls, emphCalls, frames>>

\* The else arm of the conditional of the returned JSX: the message as is
RenderPlain ==
    /\ pc = "gated"
    /\ ~UsesParser(isUser, hasMarkdown)
    /\ output' = <<LiteralSeg(message)>>
    /\ pc' = "done"
    /\ UNCHANGED <<message, isUser, hasMarkdown, parsed, inlineCalls, emphCalls, frames>>

\* The then arm: {parseMarkdown(message)}
RenderMarkdown ==
    /\ pc = "gated"
    /\ UsesParser(isUser, hasMarkdown)
    /\ parsed' = TRUE
    /\ output' = parseMarkdown(message)
    /\ inlineCalls' = InlineCallsOf(output')
    /\ emphCalls' = EmphCallsOf(inlineCalls')
    /\ pc' = "done"
    /\ UNCHANGED <<message, isUser, hasMarkdown, frames>>

Next == Detect \/ RenderPlain \/ RenderMarkdown

Spec == Init /\ [][Next]_vars

---------------------------------------------------------------------------
(* The same render, loop iteration by loop iteration.  pc names the        *)
(* statement about to run: "line" the head of the for loop of              *)
(* parseMarkdown, "code" the while loop of a code block, "linktest",       *)
(* "mdscan", "urlscan", "walklinks", "pushlink", "tail", "inlineret" the   *)
(* statements of parseInlineMarkdown, "patscan", "walkmatches" those of    *)
(* parseTextWithFormatting.                                                *)

\* {parseMarkdown(message)}: the call, up to the head of the for loop
CallParseMarkdown ==
    /\ pc = "gated"
    /\ UsesParser(isUser, hasMarkdown)
    /\ parsed' = TRUE
    /\ blk' = [BlkIdle EXCEPT !.lines = Split(message)]
    /\ pc' = "line"
    /\ UNCHANGED <<message, isUser, hasMarkdown, output, inlineCalls, emphCalls, inl, fmt>>

\* i < lines.length fails: return elements
LoopExit ==
    /\ pc = "line"
    /\ blk.i >= Len(blk.lines)
    /\ output' = blk.elements
    /\ pc' = "done"
    /\ UNCHANGED <<message, isUser, hasMarkdown, parsed, inlineCalls, emphCalls, frames>>

\* An iteration on a heading, a blockquote, an empty line, or an ordered-list
\* line the capturing pattern does not match
LineLiteral ==
    /\ pc = "line"
    /\ blk.i < Len(blk.lines)
    /\ LET line == At(blk.lines, blk.i) IN
       /\ ~IsOpeningFence(line)
       /\ ~InlineArg(line).call
       /\ blk' = [blk EXCEPT !.elements = @ \o LiteralElements(line, blk.i),
                             !.i = @ + 1]
    /\ UNCHANGED <<message, isUser, pc, hasMarkdown, parsed, output, inlineCalls,
                   emphCalls, inl, fmt>>

\* const codeLines = []; i++
LineOpenFence ==
    /\ pc = "line"
    /\ blk.i < Len(blk.lines)
    /\ IsOpeningFence(At(blk.lines, blk.i))
    /\ blk' = [blk EXCEPT !.open = blk.i, !.codeLines = <<>>, !.i = @ + 1]
    /\ pc' = "code"
    /\ UNCHANGED <<message, isUser, hasMarkdown, parsed, output, inlineCalls,
                   emphCalls, inl, fmt>>

\* The body of the while loop: codeLines.push(lines[i]); i++
CollectCodeLine ==
    /\ pc = "code"
    /\ blk.i < Len(blk.lines)
    /\ ~ClosesFence(At(blk.lines, blk.i))
    /\ blk' = [blk EXCEPT !.codeLines = Append(@, At(blk.lines, blk.i)), !.i = @ + 1]
    /\ UNCHANGED <<message, isUser, pc, hasMarkdown, parsed, output, inlineCalls,
                   emphCalls, inl, fmt>>

\* The while loop ends: push the code block, then the i++ of the for loop
CloseCodeBlock ==
    /\ pc = "code"
    /\ ~(blk.i < Len(blk.lines) /\ ~ClosesFence(At(blk.lines, blk.i)))
    /\ blk' = [blk EXCEPT
                 !.elements = Append(@, CodeBlockSeg(blk.codeLines, blk.open,
                                                     LastConsumed(blk.lines, blk.i))),
                 !.codeLines = <<>>,
                 !.i = @ + 1]
    /\ pc' = "line"
    /\ UNCHANGED <<message, isUser, hasMarkdown, parsed, output, inlineCalls,
                   emphCalls, inl, fmt>>

\* An iteration on a bullet, a matched ordered-list line or a paragraph:
\* parseInlineMarkdown is called
LineInline ==
    /\ pc = "line"
    /\ blk.i < Len(blk.lines)
    /\ LET line == At(blk.lines, blk.i) IN
       /\ ~IsOpeningFence(line)
       /\ InlineArg(line).call
       /\ inl' = [InlIdle EXCEPT !.arg = InlineArg(line)]
    /\ pc' = "linktest"
    /\ UNCHANGED <<message, isUser, hasMarkdown, parsed, output, inlineCalls,
                   emphCalls, blk, fmt>>

\* The locals of parseTextWithFormatting(text) at its first regex.exec, the
\* caller resuming at ret
FormatCall(text, ret) == [FmtIdle EXCEPT !.text = text, !.pat = 1, !.ret = ret]

\* if (!hasMarkdownLinks && !hasPlainUrls) return parseTextWithFormatting(text)
NoLinks ==
    /\ pc = "linktest"
    /\ ~HasLinks(inl.arg.text)
    /\ fmt' = FormatCall(inl.arg.text, "inlineret")
    /\ pc' = "patscan"
    /\ UNCHANGED <<message, isUser, hasMarkdown, parsed, output, inlineCalls,
                   emphCalls, blk, inl>>

\* markdownLinkRegex.lastIndex = 0; urlRegex.lastIndex = 0
StartLinkScan ==
    /\ pc = "linktest"
    /\ HasLinks(inl.arg.text)
    /\ inl' = [inl EXCEPT !.re = 0]
    /\ pc' = "mdscan"
    /\ UNCHANGED <<message, isUser, hasMarkdown, parsed, output, inlineCalls,
                   emphCalls, blk, fmt>>

\* markdownLinkRegex.exec(text) matched: push the link
MdScanHit ==
    /\ pc = "mdscan"
    /\ LET m == ExecMdLink(inl.arg.text, inl.re) IN
       /\ m.found
       /\ inl' = [inl EXCEPT
                    !.allLinks = Append(@, Link(m.index, m.index + m.len,
                                                m.g1, m.g2, "markdown")),
                    !.re = NextLastIndex(m)]
    /\ UNCHANGED <<message, isUser, pc, hasMarkdown, parsed, output, inlineCalls,
                   emphCalls, blk, fmt>>

\* markdownLinkRegex.exec(text) returned null
MdScanEnd ==
    /\ pc = "mdscan"
    /\ ~ExecMdLink(inl.arg.text, inl.re).found
    /\ inl' = [inl EXCEPT !.re = 0]
    /\ pc' = "urlscan"
    /\ UNCHANGED <<message, isUser, hasMarkdown, parsed, output, inlineCalls,
                   emphCalls, blk, fmt>>

\* urlRegex.exec(text) matched: push the URL unless a markdown link holds it
UrlScanHit ==
    /\ pc = "urlscan"
    /\ LET m == ExecUrl(inl.arg.text, inl.re)
           url == Substring(inl.arg.text, m.index, m.index + m.len)
       IN /\ m.found
          /\ inl' = [inl EXCEPT
                       !.allLinks =
                           IF isPartOfMarkdownLink(inl.allLinks, m.index) THEN @
                           ELSE Append(@, Link(m.index, m.index + m.len, url, url, "plain")),
                       !.re = NextLastIndex(m)]
    /\ UNCHANGED <<message, isUser, pc, hasMarkdown, parsed, output, inlineCalls,
                   emphCalls, blk, fmt>>

\* urlRegex.exec(text) returned null: sort the links, start the walk
UrlScanEnd ==
    /\ pc = "urlscan"
    /\ ~ExecUrl(inl.arg.text, inl.re).found
    /\ inl' = [inl EXCEPT !.allLinks = SortLinks(@), !.k = 1, !.lastIndex = 0,
                          !.elements = <<>>]
    /\ pc' = "walklinks"
    /\ UNCHANGED <<message, isUser, hasMarkdown, parsed, output, inlineCalls,
                   emphCalls, blk, fmt>>

\* forEach on link k: text lies before it, parseTextWithFormatting(beforeText)
WalkLinkGap ==
    /\ pc = "walklinks"
    /\ inl.k <= Len(inl.allLinks)
    /\ inl.allLinks[inl.k].start > inl.lastIndex
    /\ fmt' = FormatCall(Substring(inl.arg.text, inl.lastIndex,
                                   inl.allLinks[inl.k].start), "pushlink")
    /\ pc' = "patscan"
    /\ UNCHANGED <<message, isUser, hasMarkdown, parsed, output, inlineCalls,
                   emphCalls, blk, inl>>

\* forEach on link k: no text lies before it
WalkLinkNoGap ==
    /\ pc = "walklinks"
    /\ inl.k <= Len(inl.allLinks)
    /\ ~(inl.allLinks[inl.k].start > inl.lastIndex)
    /\ pc' = "pushlink"
    /\ UNCHANGED <<message, isUser, hasMarkdown, parsed, output, inlineCalls,
                   emphCalls, frames>>

\* forEach on link k: push the link; lastIndex = link.end
PushLink ==
    /\ pc = "pushlink"
    /\ LET l == inl.allLinks[inl.k] IN
       inl' = [inl EXCEPT !.elements = Append(@, LinkSpan(l.text, l.url)),
                          !.lastIndex = AfterLink(l),
                          !.k = @ + 1]
    /\ pc' = "walklinks"
    /\ UNCHANGED <<message, isUser, hasMarkdown, parsed, output, inlineCalls,
                   emphCalls, blk, fmt>>

\* forEach is over
WalkLinksEnd ==
    /\ pc = "walklinks"
    /\ inl.k > Len(inl.allLinks)
    /\ pc' = "tail"
    /\ UNCHANGED <<message, isUser, hasMarkdown, parsed, output, inlineCalls,
                   emphCalls, frames>>

\* if (lastIndex < text.length): parseTextWithFormatting(remainingText)
TailGap ==
    /\ pc = "tail"
    /\ inl.lastIndex < Len(inl.arg.text)
    /\ fmt' = FormatCall(SubstringFrom(inl.arg.text, inl.lastIndex), "inlineret")
    /\ pc' = "patscan"
    /\ UNCHANGED <<message, isUser, hasMarkdown, parsed, output, inlineCalls,
                   emphCalls, blk, inl>>

TailNone ==
    /\ pc = "tail"
    /\ ~(inl.lastIndex < Len(inl.arg.text))
    /\ pc' = "inlineret"
    /\ UNCHANGED <<message, isUser, hasMarkdown, parsed, output, inlineCalls,
                   emphCalls, frames>>

\* parseInlineMarkdown returns: push the element, then the i++ of the for loop
InlineReturn ==
    /\ pc = "inlineret"
    /\ blk' = [blk EXCEPT !.elements = Append(@, InlineSeg(inl.arg, inl.elements, blk.i)),
                          !.i = @ + 1]
    /\ inl' = InlIdle
    /\ pc' = "line"
    /\ UNCHANGED <<message, isUser, hasMarkdown, parsed, output, inlineCalls,
                   emphCalls, fmt>>

\* regex.exec(text) of pattern pat matched: push the match
PatScanHit ==
    /\ pc = "patscan"
    /\ LET m == ExecDelim(fmt.text, patterns[fmt.pat].delim, fmt.re) IN
       /\ m.found
       /\ fmt' = [fmt EXCEPT
                    !.allMatches = Append(@, [index |-> m.index, len |-> m.len,
                                              g1 |-> m.g1,
                                              style |-> patterns[fmt.pat].style]),
                    !.re = NextLastIndex(m)]
    /\ UNCHANGED <<message, isUser, pc, hasMarkdown, parsed, output, inlineCalls,
                   emphCalls, blk, inl>>

\* regex.exec(text) returned null and a pattern is left: a new RegExp
PatScanNext ==
    /\ pc = "patscan"
    /\ ~ExecDelim(fmt.text, patterns[fmt.pat].delim, fmt.re).found
    /\ fmt.pat < Len(patterns)
    /\ fmt' = [fmt EXCEPT !.pat = @ + 1, !.re = 0]
    /\ UNCHANGED <<message, isUser, pc, hasMarkdown, parsed, output, inlineCalls,
                   emphCalls, blk, inl>>

\* regex.exec(text) returned null for the last pattern: sort, start the walk
PatScanEnd ==
    /\ pc = "patscan"
    /\ ~ExecDelim(fmt.text, patterns[fmt.pat].delim, fmt.re).found
    /\ fmt.pat = Len(patterns)
    /\ fmt' = [fmt EXCEPT !.allMatches = SortMatches(@), !.k = 1, !.currentIndex = 0,
                          !.elements = <<>>]
    /\ pc' = "walkmatches"
    /\ UNCHANGED <<message, isUser, hasMarkdown, parsed, output, inlineCalls,
                   emphCalls, blk, inl>>

\* forEach on match k: the text before it, the styled match, the new currentIndex
WalkMatch ==
    /\ pc = "walkmatches"
    /\ fmt.k <= Len(fmt.allMatches)
    /\ LET m == fmt.allMatches[fmt.k]
           before == IF m.index > fmt.currentIndex
                     THEN <<Plain(Substring(fmt.text, fmt.currentIndex, m.index))>>
                     ELSE <<>>
       IN fmt' = [fmt EXCEPT !.elements = @ \o before \o <<Styled(m.g1, m.style)>>,
                             !.currentIndex = AfterMatch(m),
                             !.k = @ + 1]
    /\ UNCHANGED <<message, isUser, pc, hasMarkdown, parsed, output, inlineCalls,
                   emphCalls, blk, inl>>

\* forEach is over: the remaining text, and the return to parseInlineMarkdown
FormatReturn ==
    /\ pc = "walkmatches"
    /\ fmt.k > Len(fmt.allMatches)
    /\ LET rest == IF fmt.currentIndex < Len(fmt.text)
                   THEN <<Plain(SubstringFrom(fmt.text, fmt.currentIndex))>>
                   ELSE <<>>
           elements == fmt.elements \o rest
           result == IF elements = <<>> THEN <<Plain(fmt.text)>> ELSE elements
       IN inl' = [inl EXCEPT !.elements = @ \o result]
    /\ pc' = fmt.ret
    /\ fmt' = FmtIdle
    /\ UNCHANGED <<message, isUser, hasMarkdown, parsed, output, inlineCalls,
                   emphCalls, blk>>

StepNext ==
    \/ Detect
    \/ RenderPlain
    \/ CallParseMarkdown
    \/ LoopExit
    \/ LineLiteral
    \/ LineOpenFence
    \/ CollectCodeLine
    \/ CloseCodeBlock
    \/ LineInline
    \/ NoLinks
    \/ StartLinkScan
    \/ MdScanHit
    \/ MdScanEnd
    \/ UrlScanHit
    \/ UrlScanEnd
    \/ WalkLinkGap
    \/ WalkLinkNoGap
    \/ PushLink
    \/ WalkLinksEnd
    \/ TailGap
    \/ TailNone
    \/ InlineReturn
    \/ PatScanHit
    \/ PatScanNext
    \/ PatScanEnd
    \/ WalkMatch
    \/ FormatReturn

MaxChars == 4    \* length of the messages made of delimiter characters

DelimiterChars == {"*", BQ, "[", "]", LF}

RECURSIVE CharsUpTo(_)
\* The strings of 0..n characters from DelimiterChars
CharsUpTo(n) ==
    IF n = 0 THEN {<<>>}
    ELSE LET shorter == CharsUpTo(n - 1)
         IN shorter \cup {m \o <<c>> : m \in shorter, c \in DelimiterChars}

ExLoops ==
    <<"*", "a", "*", " ", "[", "x", "]", "(", "y", ")", " ">> \o Url
    \o <<LF>> \o Fence \o <<LF, "*">>

\* The one-line messages made of two pieces of inline markup
PartPairs == {p \o q : p \in InlineParts, q \in InlineParts}

\* The empty string, every string of up to MaxChars delimiter characters, one
\* line of each kind, the one-line messages of one or two pieces of inline
\* markup, and the examples
StepMessages ==
    CharsUpTo(MaxChars) \cup LineSamples \cup InlineParts \cup PartPairs
    \cup Examples \cup {ExLoops}

StepInit == InitOn(StepMessages)

StepSpec == StepInit /\ [][StepNext]_vars

\* The step by step render returns what parseMarkdown, as an operator, gives
StepsAgree == (pc = "done" /\ parsed) => output = parseMarkdown(message)

---------------------------------------------------------------------------
(* Properties of the render                                                *)

Range(f) == {f[k] : k \in DOMAIN f}

NonDecreasing(f) == \A k \in 1..(Len(f) - 1) : f[k] <= f[k + 1]

Rendered == pc = "done" /\ parsed

\* C1: when isUser is true or the detector returns false for the message,
\* the output is exactly one literal segment holding the message unchanged
\* and parseMarkdown is never run; only when isUser is false and the
\* detector returns true is the output the sequence parseMarkdown returns.
C1_GateBypass ==
    LET bypass == isUser \/ ~DetectMarkdown(message) IN
    /\ bypass => ~parsed /\ inlineCalls = <<>> /\ emphCalls = <<>>
    /\ pc = "done" =>
         IF bypass
         THEN /\ Len(output) = 1
              /\ output[1].kind = "Literal"
              /\ output[1].text = message
              /\ ~output[1].inline
         ELSE /\ parsed
              /\ output = parseMarkdown(message)
              /\ \A k \in 1..Len(output) : output[k].kind # "Literal"

\* A user's message full of markdown was rendered as it is
C1_Witness ==
    /\ pc = "done"
    /\ isUser
    /\ message = ExUserHeading
    /\ DetectMarkdown(message)
    /\ output = <<LiteralSeg(ExUserHeading)>>

\* The lines a code block element consumed: fences and collected lines
FenceLines(elements) ==
    UNION {e.src..e.last : e \in {x \in Range(elements) : x.kind = "CodeBlock"}}

\* C3: every line that is not consumed as part of a fenced code block yields
\* exactly one element, and the elements come in source line order; no line
\* is dropped, also not a line that passes the ordered-list test and fails
\* the capturing pattern.
C3_OneSegmentPerLine ==
    Rendered =>
      LET lines == Split(message) IN
      /\ \A i \in 0..(Len(lines) - 1) :
            i \notin FenceLines(output) =>
              Cardinality({k \in 1..Len(output) : output[k].src = i}) = 1
      /\ \A k \in 1..(Len(output) - 1) : output[k].src < output[k + 1].src

\* The line that ends the code block opened at line open, by the test
\* closes: the first later line passing it, or Len(lines) when there is none.
FirstClosing(lines, open, closes(_)) ==
    LET later == {j \in (open + 1)..(Len(lines) - 1) : closes(At(lines, j))}
    IN IF later = {} THEN Len(lines) ELSE Min(later)

\* What the claim C4 says of the element at position k of the output, for a
\* given test of what a closing fence is.
CodeBlockRule(k, closes(_)) ==
    LET lines == Split(message)
        e == output[k]
        stop == FirstClosing(lines, e.src, closes)
    IN /\ StartsWith(At(lines, e.src), Fence)
       /\ e.lines = Substring(lines, e.src + 1, stop)
       /\ e.last = (IF stop < Len(lines) THEN stop ELSE Len(lines) - 1)
       /\ \A j \in 1..Len(output) :
             /\ j # k => output[j].src \notin e.src..e.last
             /\ j > k => output[j].src > e.last /\ stop < Len(lines)

\* Every line the cursor reaches that begins with the fence marker (and is no
\* heading) gives exactly one code block element
FenceGivesCodeBlock ==
    LET lines == Split(message) IN
    \A i \in 0..(Len(lines) - 1) :
        (IsOpeningFence(At(lines, i)) /\ i \notin
            UNION {(e.src + 1)..e.last : e \in {x \in Range(output) : x.kind = "CodeBlock"}})
        => Cardinality({k \in 1..Len(output) :
                          output[k].kind = "CodeBlock" /\ output[k].src = i}) = 1

IsExactFence(line) == line = Fence

\* C4 as stated: a code block holds, verbatim and in order, the lines after
\* the opening fence up to the first later line that IS the fence marker (or
\* the end of input); a later line that only starts with the marker is
\* content; the cursor resumes after the closing fence, and with no closing
\* fence no further element follows.
C4_ExactClosingFence ==
    Rendered =>
      /\ FenceGivesCodeBlock
      /\ \A k \in 1..Len(output) :
            output[k].kind = "CodeBlock" => CodeBlockRule(k, IsExactFence)

StartsWithFence(line) == StartsWith(line, Fence)

\* C4 amended: as C4, the closing fence being the first later line that
\* STARTS WITH the fence marker, whatever follows the marker on that line.
C4_PrefixClosingFence ==
    Rendered =>
      /\ FenceGivesCodeBlock
      /\ \A k \in 1..Len(output) :
            output[k].kind = "CodeBlock" => CodeBlockRule(k, StartsWithFence)

\* A code block with content was closed by a line that starts with the fence
\* marker and goes on, and an element follows it
C4_Witness ==
    /\ Rendered
    /\ \E k \in 1..(Len(output) - 1) :
          LET e == output[k] IN
          /\ e.kind = "CodeBlock"
          /\ e.lines # <<>>
          /\ At(Split(message), e.last) # Fence
          /\ StartsWith(At(Split(message), e.last), Fence)
          /\ e.last > e.src

SegmentsOf(s) == Range(parseMarkdown(s))

\* C5: the detector has no false negatives: a message on which it returns
\* false would give only Paragraph and Spacer elements holding only Plain
\* spans if it were parsed, also when an ordered-list marker begins a line
\* other than the first.
C5_NoFalseNegative ==
    (pc # "start" /\ ~hasMarkdown) =>
      \A e \in SegmentsOf(message) :
          /\ e.kind \in {"Paragraph", "Spacer"}
          /\ \A sp \in Range(e.spans) : sp.kind = "Plain"

\* An element shown as literal text, with no inline resolution
IsLiteralText(e) == e.kind # "Spacer" /\ ~e.inline

HasLinkSpan(e) == \E sp \in Range(e.spans) : sp.kind = "Link"

\* C6 as stated: an element's text goes through parseInlineMarkdown exactly
\* when the element is a Paragraph, a ListItem or a Blockquote, and is shown
\* as literal text exactly when it is a Heading or a CodeBlock; the
\* blockquote line "> see https://a.com" gives a Link span.
C6_BlockquoteInline ==
    Rendered =>
      /\ \A e \in Range(output) :
            /\ e.inline <=> e.kind \in {"Paragraph", "ListItem", "Blockquote"}
            /\ IsLiteralText(e) <=> e.kind \in {"Heading", "CodeBlock"}
      /\ message = ExQuoteUrl => HasLinkSpan(output[1])

\* C6 amended: an element's text goes through parseInlineMarkdown exactly
\* when the element is a Paragraph or a ListItem, and is shown as literal
\* text exactly when it is a Heading, a CodeBlock or a Blockquote; the
\* blockquote line "> see https://a.com" gives one Blockquote element showing
\* the literal text "see https://a.com" and no Link span.
C6_BlockquoteLiteral ==
    Rendered =>
      /\ \A e \in Range(output) :
            /\ e.inline <=> e.kind \in {"Paragraph", "ListItem"}
            /\ IsLiteralText(e) <=> e.kind \in {"Heading", "CodeBlock", "Blockquote"}
            /\ IsLiteralText(e) => e.spans = <<>>
      /\ message = ExQuoteUrl =>
            /\ Len(output) = 1
            /\ output[1].kind = "Blockquote"
            /\ output[1].text = SubstringFrom(ExQuoteUrl, 2)
            /\ ~HasLinkSpan(output[1])

\* The blockquote line with a URL was rendered
C6_Witness ==
    /\ Rendered
    /\ message = ExQuoteUrl
    /\ output[1].kind = "Blockquote"
    /\ HasUrlScheme(output[1].text)

\* Every match of the bare-URL scan, none discarded
BareUrlMatches(text) == Range(ScanPlainUrls(text, 0, <<>>))

MarkdownMatches(text) == Range(ScanMarkdownLinks(text, 0))

InMarkdownMatch(text, offset) ==
    \E m \in MarkdownMatches(text) : m.start <= offset /\ offset < m.end

\* C7: the link candidates of a line are sorted ascending by start offset,
\* each has start < end, consecutive candidates do not overlap, and a
\* bare-URL match is among them if and only if its start offset lies in no
\* markdown-link match's range [start, end).
C7_LinksDisjoint ==
    \A c \in Range(inlineCalls) :
        LET ls == c.links IN
        /\ \A k \in 1..Len(ls) : ls[k].start < ls[k].end
        /\ \A k \in 1..(Len(ls) - 1) :
              ls[k].start < ls[k + 1].start /\ ls[k].end <= ls[k + 1].start
        /\ \A u \in BareUrlMatches(c.text) :
              (u \in Range(ls)) <=> ~InMarkdownMatch(c.text, u.start)
        /\ \A l \in Range(ls) :
              l.type = "plain" => l \in BareUrlMatches(c.text)

\* A line held a markdown link with a URL in it, which was discarded, and a
\* bare URL outside it, which was kept
C7_Witness ==
    /\ Rendered
    /\ \E c \in Range(inlineCalls) :
          /\ \E l \in Range(c.links) : l.type = "markdown"
          /\ \E l \in Range(c.links) : l.type = "plain"
          /\ \E u \in BareUrlMatches(c.text) : u \notin Range(c.links)

RECURSIVE ConcatTexts(_)
ConcatTexts(spans) ==
    IF spans = <<>> THEN <<>> ELSE spans[1].text \o ConcatTexts(Tail(spans))

\* The offsets of the delimiters of a match
DelimOffsets(m) ==
    LET d == (m.len - Len(m.g1)) \div 2
    IN (m.index..(m.index + d - 1)) \cup ((m.index + m.len - d)..(m.index + m.len - 1))

\* text without the delimiters of the matches ms
StripDelims(text, ms) ==
    LET gone == UNION {DelimOffsets(m) : m \in Range(ms)}
        keep == SelectSeq([k \in 1..Len(text) |-> k - 1], LAMBDA o : o \notin gone)
    IN [k \in 1..Len(keep) |-> At(text, keep[k])]

\* C8: the spans of parseTextWithFormatting are an ordered cover of the text
\* without gaps or overlaps: the walk cursor never moves backward and the
\* span texts, concatenated in order, are the text with exactly the matched
\* emphasis delimiters removed; also when a bold and an italic match fall on
\* the same characters.
C8_SpansTileText ==
    \A c \in Range(emphCalls) :
        /\ NonDecreasing(c.cursors)
        /\ ConcatTexts(c.spans) = StripDelims(c.text, c.matches)

NoEmphasisChar(w) == w # <<>> /\ \A k \in 1..Len(w) : w[k] \notin {"*", BQ}

\* C9: for a text  **A** P *B*  with A, P, B non-empty and free of asterisks
\* and backquotes, parseTextWithFormatting returns exactly the three spans
\* Styled(A, bold), Plain(P), Styled(B, italic).
C9_BoldThenItalic ==
    \A c \in Range(emphCalls) :
        \A a \in 1..Len(c.text), p \in 1..Len(c.text), b \in 1..Len(c.text) :
            LET A == Substring(c.text, 2, 2 + a)
                P == Substring(c.text, 4 + a, 4 + a + p)
                B == Substring(c.text, 5 + a + p, 5 + a + p + b)
            IN (/\ a + p + b + 6 = Len(c.text)
                /\ NoEmphasisChar(A) /\ NoEmphasisChar(P) /\ NoEmphasisChar(B)
                /\ c.text = EmphasisForm(A, P, B))
               => c.spans = <<Styled(A, "bold"), Plain(P), Styled(B, "italic")>>

\* The pieces of an inline call that are links
LinkPieces(c) == SelectSeq(c.pieces, LAMBDA q : q.type = "link")

\* C10: parseInlineMarkdown walks the sorted candidates with a cursor that
\* starts at 0 and never moves backward; each non-empty gap before a link
\* goes through parseTextWithFormatting, each link becomes one Link span with
\* the candidate's display text and target, unparsed; a non-empty trailing gap
\* follows the last link; gaps and links partition [0, length of the text);
\* with no candidate the whole text goes through parseTextWithFormatting; and
\* "visit https://example.com today" gives Plain, Link, Plain.
C10_Composition ==
    /\ \A c \in Range(inlineCalls) :
          LET ps == c.pieces
              n == Len(c.text)
          IN /\ c.cursors[1] = 0
             /\ NonDecreasing(c.cursors)
             /\ ps # <<>>
             /\ ps[1].start = 0
             /\ ps[Len(ps)].end = n
             /\ \A k \in 1..(Len(ps) - 1) : ps[k].end = ps[k + 1].start
             /\ \A k \in 1..Len(ps) :
                   ps[k].type = "gap" =>
                     /\ ps[k].start < ps[k].end \/ c.links = <<>>
                     /\ ps[k].spans = parseTextWithFormatting(
                                        Substring(c.text, ps[k].start, ps[k].end)).spans
             /\ Len(LinkPieces(c)) = Len(c.links)
             /\ \A k \in 1..Len(c.links) :
                   LET q == LinkPieces(c)[k]
                       l == c.links[k]
                   IN /\ q.start = l.start /\ q.end = l.end
                      /\ q.spans = <<LinkSpan(l.text, l.url)>>
                      /\ c.cursors[k + 1] = l.end
             /\ c.links = <<>> => ps = <<Piece("gap", 0, n, c.spans)>>
             /\ c.spans = Flatten([k \in 1..Len(ps) |-> ps[k].spans])
    /\ (Rendered /\ message = ExBareUrl) =>
          /\ Len(inlineCalls) = 1
          /\ inlineCalls[1].spans =
               << Plain(Substring(ExBareUrl, 0, 6)),
                  LinkSpan(Substring(ExBareUrl, 6, 25), Substring(ExBareUrl, 6, 25)),
                  Plain(Substring(ExBareUrl, 25, 31)) >>

\* The bare-URL example was rendered, and so was a line whose markdown link
\* has emphasis markers in a gap before it
C10_Witness ==
    /\ Rendered
    /\ \/ message = ExBareUrl /\ Len(inlineCalls[1].pieces) = 3
       \/ \E c \in Range(inlineCalls) :
             /\ Len(c.links) >= 2
             /\ \E q \in Range(c.pieces) : q.type = "gap" /\ Len(q.spans) >= 2

\* What one step does to the cursors of the loops: the line cursor never
\* moves back and has moved forward whenever the head of the for loop is
\* reached again; a scan that matched leaves its regex further right.
CursorsAdvance ==
    /\ pc # "gated" => blk'.i >= blk.i
    /\ (pc \notin {"gated", "start"} /\ pc' = "line") => blk'.i > blk.i
    /\ (pc = "code" /\ pc' = "code") => blk'.i > blk.i
    /\ (pc \in {"mdscan", "urlscan"} /\ pc' = pc) => inl'.re > inl.re
    /\ (pc = "patscan" /\ pc' = pc /\ fmt'.pat = fmt.pat) => fmt'.re > fmt.re

\* A variant of the render: a natural number every step makes smaller.  T
\* exceeds the length of every text and the value of every regex position;
\* FormatRank orders the states of one parseTextWithFormatting call,
\* InlineSlot those of one parseInlineMarkdown call, and the rank of the for
\* loop counts the lines left.
T == Len(message) + 2

FormatRank ==
    IF pc = "patscan"
    THEN 3 * T + 1 + (Len(patterns) - fmt.pat) * (T + 1) + (Len(fmt.text) - fmt.re)
    ELSE IF pc = "walkmatches" THEN Len(fmt.allMatches) + 1 - fmt.k
    ELSE 0

FormatUnit == 6 * T + 4

LinksLeft == Len(inl.allLinks) + 1 - inl.k

InlineSlot ==
    IF pc = "linktest" THEN 5 * T + 6
    ELSE IF pc = "mdscan" THEN 4 * T + 5 + (Len(inl.arg.text) - inl.re)
    ELSE IF pc = "urlscan" THEN 3 * T + 4 + (Len(inl.arg.text) - inl.re)
    ELSE IF pc = "walklinks" THEN 3 + 3 * LinksLeft
    ELSE IF pc = "pushlink" THEN 1 + 3 * LinksLeft
    ELSE IF pc = "tail" THEN 2
    ELSE IF pc \in {"patscan", "walkmatches"}
         THEN (IF fmt.ret = "pushlink" THEN 2 + 3 * LinksLeft ELSE 1)
    ELSE 0

InlineUnit == (5 * T + 8) * FormatUnit

LineUnit == InlineUnit + 2

LinesLeft == Len(blk.lines) + 1 - blk.i

Rank ==
    IF pc = "done" THEN 0
    ELSE IF pc = "start" THEN (T + 1) * LineUnit + 1
    ELSE IF pc = "gated" THEN (T + 1) * LineUnit
    ELSE IF pc = "line" THEN LinesLeft * LineUnit + 1
    ELSE IF pc = "code" THEN LinesLeft * LineUnit + 2
    ELSE (LinesLeft - 1) * LineUnit + 2 + InlineSlot * FormatUnit + FormatRank

\* The state is one the code can be in, and unless the render is over a
\* statement can run
Defined ==
    /\ pc \in {"start", "gated", "done", "line", "code", "linktest", "mdscan",
               "urlscan", "walklinks", "pushlink", "tail", "inlineret",
               "patscan", "walkmatches"}
    /\ blk.i <= Len(blk.lines) + 1
    /\ inl.re <= Len(inl.arg.text) /\ inl.lastIndex <= Len(inl.arg.text)
    /\ fmt.re <= Len(fmt.text) /\ fmt.currentIndex <= Len(fmt.text)
    /\ Rank >= 0
    /\ pc # "done" => ENABLED StepNext

\* C2: for every input string, the empty string, single characters and
\* strings of delimiter characters included, the render terminates with a
\* defined result: the line cursor of parseMarkdown strictly increases from
\* one iteration to the next until it passes the last line, every link and
\* emphasis scan moves its scan position forward on every match, no state
\* short of the end is stuck, and every step lowers a natural number, so no
\* loop runs forever.
C2_Totality ==
    /\ [][CursorsAdvance /\ Rank' < Rank]_vars
    /\ []Defined

\* A message with emphasis, a markdown link, a bare URL and an unterminated
\* fence was rendered to its end
C2_Witness ==
    /\ pc = "done"
    /\ parsed
    /\ message = ExLoops
    /\ Len(output) = 2
    /\ HasLinkSpan(output[1])
    /\ \E sp \in Range(output[1].spans) : sp.kind = "Styled"
    /\ output[2].kind = "CodeBlock"
    /\ output[2].lines = << <<"*">> >>

=============================================================================
